---- MODULE Spec2Model ----
(***************************************************************************)
(* Model of the RTSP connection core of pkg/rtsp/producer.go: the track    *)
(* negotiator GetTrack, the Start loop, Stop and Reconnect, run by         *)
(* concurrent callers over one Conn, and of the configuration getter of    *)
(* internal/streams/config.go.                                             *)
(*                                                                         *)
(* A caller that sits at a pc named after a transport command (rc_dial,    *)
(* gt_setup, st_play, ...) has that command in progress; the action that   *)
(* leaves the pc is the command returning, with either outcome.            *)
(***************************************************************************)
EXTENDS Integers, Sequences, FiniteSets, TLC

VARIABLES mode, state, Receivers, Senders, stateMu, session, stopCalled, pc, op, ret, trace, loc,
          CFG, timeout

vars == <<mode, state, Receivers, Senders, stateMu, session, stopCalled, pc, op, ret, trace, loc,
          CFG, timeout>>

\* the part of the state that is the streams configuration
config == <<CFG, timeout>>

\* the part of the state that is the connection and its callers
conn == <<mode, state, Receivers, Senders, stateMu, session, stopCalled, pc, op, ret, trace, loc>>

(* ------------------------------ bounds -------------------------------- *)

\* most entries of c.Receivers the callers are let to build up
MaxReceivers == 2
\* most entries of c.Senders a connection starts with
MaxSenders == 1

(* ------------------------------ domains ------------------------------- *)

\* two concurrent callers of the connection: the first may call every
\* operation; the second is one more caller of GetTrack and Stop
Procs == {"p1", "p2"}
Workers == {"p1"}

Modes == {"ActiveProducer", "PassiveProducer", "PassiveConsumer"}

States == {"None", "Conn", "Setup", "Play"}

\* Media references a caller may hand to GetTrack, and those of the senders
RecvMedias == {"video", "audio"}
CallMedias == RecvMedias \cup {"talk", "both"}
AllSenders == <<"out1", "out2", "out3">>
SenderMedias == {AllSenders[k] : k \in 1..Len(AllSenders)}
Medias == CallMedias \cup SenderMedias

Codecs == {"H264", "ANY"}

\* the codecs a caller asks for: the codec plays no part off the recvonly path
CallCodecs(media) == IF media \in RecvMedias THEN Codecs ELSE {"ANY"}

\* the channel the remote peer answers the SETUP of a Media with
SetupChannel(media) ==
    CASE media = "video" -> 0
      [] media = "audio" -> 2
      [] media = "talk" -> 4
      [] OTHER -> 6

\* the recvonly Medias of the tracks a long-lived PassiveConsumer holds
EarlierMedia(k) == "in" \o ToString(k)

Direction(media) ==
    CASE media \in RecvMedias -> "recvonly"
      [] media = "talk" -> "sendonly"
      [] media = "both" -> "sendrecv"
      [] media \in SenderMedias -> "sendonly"
      [] OTHER -> "recvonly"

\* core.Codec.Match: the requested codec is compatible with the track's
Match(trackCodec, codec) == codec = "ANY" \/ trackCodec = codec

\* a counter that tells 0, 1 and more apart
Inc(n) == IF n < 2 THEN n + 1 ELSE n

(* ------------------------------ records ------------------------------- *)

\* what a reader of the configuration was last handed: nothing yet, or a
\* time.Duration
NoTimeout == [read |-> FALSE, value |-> 0]
Timeout(d) == [read |-> TRUE, value |-> d]


Call(cmd, arg, n, ok) == [cmd |-> cmd, arg |-> arg, n |-> n, ok |-> ok]

NoOp == [name |-> "", media |-> "", codec |-> ""]
Op(name, media, codec) == [name |-> name, media |-> media, codec |-> codec]

\* a call's result: err "nil" is success; track 0 is a nil track, k > 0 the
\* object at Receivers[k], -1 a new object that no registry holds
Result(err, track, id) == [err |-> err, track |-> track, id |-> id]
NoRet == Result("pending", 0, 0)

\* a call's locals: the index and the length of the range in progress; of
\* Start, its named result err, whether c.Handle() was called, the number of
\* passes of its loop (1, or 2 for more), the state the last pass found and
\* what the last c.Handle() returned; of Stop, the state it found
NoLoc == [i |-> 0, n |-> 0, handled |-> FALSE, err |-> "nil", pass |-> 0, seen |-> "",
          herr |-> ""]

(* ------------------------------ helpers ------------------------------- *)

Track(media, codec, id) == [media |-> media, codec |-> codec, id |-> id, closed |-> 0]

\* the Medias with a successful SETUP on the current transport session
NoSession == {}
Tracked == RecvMedias \cup SenderMedias
SetUp(media) == IF media \in Tracked THEN session \cup {media} ELSE session

\* Go's byte(n): the low 8 bits
Byte(n) == n % 256

\* the fast path with the codecs compared for equality, not with Match
CacheLookupSameCodec(media, codec) ==
    LET hits == {k \in 1..Len(Receivers) :
                    Receivers[k].media = media /\ Receivers[k].codec = codec}
    IN  IF Direction(media) = "recvonly" /\ hits # {}
        THEN CHOOSE k \in hits : \A j \in hits : k <= j
        ELSE 0

\* the fast path of GetTrack: the first entry of c.Receivers for this Media
\* reference whose codec matches, 0 when there is none
CacheLookup(media, codec) ==
    LET hits == {k \in 1..Len(Receivers) :
                    Receivers[k].media = media /\ Match(Receivers[k].codec, codec)}
    IN  IF Direction(media) = "recvonly" /\ hits # {}
        THEN CHOOSE k \in hits : \A j \in hits : k <= j
        ELSE 0

\* the allocation that counts c.Senders whatever the direction
PassiveChannelSenders(media) == Byte(Byte(Len(Senders)) * 2)

\* the channel a PassiveConsumer allocates
PassiveChannel(media) ==
    IF Direction(media) = "recvonly"
    THEN Byte(Len(Receivers) * 2)
    ELSE Byte(Byte(Len(Senders)) * 2)

\* a result is taken before any caller goes on: nothing reads another
\* caller's result, so no interleaving is lost
Quiet == \A q \in Procs : pc[q] # "done"

Log(p, c) == trace' = [trace EXCEPT ![p] = Append(@, c)]

Return(p, r) ==
    /\ pc' = [pc EXCEPT ![p] = "done"]
    /\ ret' = [ret EXCEPT ![p] = r]

\* defer c.stateMu.Unlock(); a direct Reconnect holds no lock
Release(p) == stateMu' = IF stateMu = p THEN "free" ELSE stateMu

\* GetTrack calls in flight that may still append to c.Receivers
Pending == {q \in Procs : /\ pc[q] # "idle"
                          /\ op[q].name = "GetTrack"
                          /\ Direction(op[q].media) = "recvonly"}

\* the entries of c.Receivers the callers of this run have added
Grown == Cardinality({k \in 1..Len(Receivers) : Receivers[k].media \in CallMedias})

CanGetTrack(media, codec) ==
    \/ Direction(media) # "recvonly"
    \/ CacheLookup(media, codec) # 0
    \/ Grown + Cardinality(Pending) < MaxReceivers

(* ------------------------------ GetTrack ------------------------------ *)

\* the call and the unlocked scan of c.Receivers
GetTrack(p, media, codec) ==
    /\ pc[p] = "idle"
    /\ Quiet
    /\ ~stopCalled
    /\ CanGetTrack(media, codec)
    /\ op' = [op EXCEPT ![p] = Op("GetTrack", media, codec)]
    /\ trace' = [trace EXCEPT ![p] = <<>>]
    /\ loc' = [loc EXCEPT ![p] = NoLoc]
    /\ LET hit == CacheLookup(media, codec)
       IN  IF hit # 0
           THEN Return(p, Result("nil", hit, Receivers[hit].id))
           ELSE /\ pc' = [pc EXCEPT ![p] = "gt_lock"]
                /\ ret' = [ret EXCEPT ![p] = NoRet]
    /\ UNCHANGED <<CFG, timeout, mode, stopCalled, state, Receivers, Senders, stateMu, session>>

\* the tail of GetTrack: reject what is not recvonly, else register the track
GetTrackFinish(p, channel) ==
    IF Direction(op[p].media) # "recvonly"
    THEN /\ Return(p, Result("GetTrack internal logic error", 0, 0))
         /\ UNCHANGED Receivers
    ELSE /\ Return(p, Result("nil", Len(Receivers) + 1, channel))
         /\ Receivers' = Append(Receivers, Track(op[p].media, op[p].codec, channel))

\* c.stateMu.Lock() and the switch on c.mode
GetTrackLocked(p) ==
    /\ pc[p] = "gt_lock"
    /\ Quiet
    /\ stateMu = "free"
    /\ CASE mode = "ActiveProducer" ->
              /\ stateMu' = p
              /\ pc' = [pc EXCEPT ![p] = IF state = "Play" THEN "rc_close" ELSE "gt_setup"]
              /\ UNCHANGED <<ret, Receivers>>
         [] mode = "PassiveConsumer" ->
              /\ GetTrackFinish(p, PassiveChannel(op[p].media))
              /\ UNCHANGED stateMu
         [] OTHER ->
              /\ Return(p, Result("rtsp: wrong mode for GetTrack", 0, 0))
              /\ UNCHANGED <<stateMu, Receivers>>
    /\ UNCHANGED <<CFG, timeout, mode, stopCalled, state, Senders, session, op, trace, loc>>

\* c.SetupMedia(media) returns to GetTrack
GetTrackSetup(p) ==
    /\ pc[p] = "gt_setup"
    /\ Quiet
    /\ \E ok \in BOOLEAN :
         /\ Log(p, Call("SetupMedia", op[p].media, 0, ok))
         /\ IF ~ok
            THEN /\ Return(p, Result("setup error", 0, 0))
                 /\ UNCHANGED <<state, Receivers, session>>
            ELSE /\ state' = "Setup"
                 /\ session' = SetUp(op[p].media)
                 /\ IF Direction(op[p].media) = "sendonly"
                    THEN /\ Return(p, Result("nil", -1, SetupChannel(op[p].media)))
                         /\ UNCHANGED Receivers
                    ELSE GetTrackFinish(p, SetupChannel(op[p].media))
    /\ Release(p)
    /\ UNCHANGED <<CFG, timeout, mode, stopCalled, Senders, op, loc>>

(* ------------------------------ Reconnect ----------------------------- *)

\* the range over c.Senders: the slice is read when the loop starts
RcLoopSenders ==
    IF Len(Senders) >= 1
    THEN [pc |-> "rc_send", i |-> 1, n |-> Len(Senders)]
    ELSE [pc |-> "rc_done", i |-> 0, n |-> 0]

\* a Reconnect that forgets to replay the receivers
RcLoopReceiversSkipped == RcLoopSenders

\* the range over c.Receivers, which comes first
RcLoopReceivers ==
    IF Len(Receivers) >= 1
    THEN [pc |-> "rc_recv", i |-> 1, n |-> Len(Receivers)]
    ELSE RcLoopSenders

\* a Reconnect that returns after the receivers, the senders not replayed
RcAdvanceNoSenders(cur, i, n) ==
    IF i < n
    THEN [pc |-> cur, i |-> i + 1, n |-> n]
    ELSE [pc |-> "rc_done", i |-> 0, n |-> 0]

\* where Reconnect goes once SetupMedia of entry i of the loop at cur succeeded
RcAdvance(cur, i, n) ==
    IF i < n
    THEN [pc |-> cur, i |-> i + 1, n |-> n]
    ELSE IF cur = "rc_recv"
         THEN RcLoopSenders
         ELSE [pc |-> "rc_done", i |-> 0, n |-> 0]

\* Reconnect goes on at nxt; at rc_done it returns nil, to its caller or,
\* inside GetTrack, to the SetupMedia of the new Media
RcGoto(p, nxt) ==
    /\ loc' = [loc EXCEPT ![p].i = nxt.i, ![p].n = nxt.n]
    /\ IF nxt.pc # "rc_done"
       THEN /\ pc' = [pc EXCEPT ![p] = nxt.pc]
            /\ UNCHANGED <<ret, stateMu>>
       ELSE IF op[p].name = "GetTrack"
            THEN /\ pc' = [pc EXCEPT ![p] = "gt_setup"]
                 /\ UNCHANGED <<ret, stateMu>>
            ELSE /\ Return(p, Result("nil", 0, 0))
                 /\ Release(p)

\* a step of Reconnect failed: Reconnect returns the error, and so does a
\* GetTrack that called it
RcFail(p, err) ==
    /\ Return(p, Result(err, 0, 0))
    /\ Release(p)
    /\ UNCHANGED loc

\* Reconnect called directly
Reconnect(p) ==
    /\ p \in Workers
    /\ pc[p] = "idle"
    /\ Quiet
    /\ ~stopCalled
    /\ pc' = [pc EXCEPT ![p] = "rc_close"]
    /\ op' = [op EXCEPT ![p] = Op("Reconnect", "", "")]
    /\ ret' = [ret EXCEPT ![p] = NoRet]
    /\ trace' = [trace EXCEPT ![p] = <<>>]
    /\ loc' = [loc EXCEPT ![p] = NoLoc]
    /\ UNCHANGED <<CFG, timeout, mode, stopCalled, state, Receivers, Senders, stateMu, session>>

\* _ = c.Close() returns; its error is dropped, so either outcome leaves the
\* same state
ReconnectClose(p) ==
    /\ pc[p] = "rc_close"
    /\ Quiet
    /\ Log(p, Call("Close", "", 0, TRUE))
    /\ session' = NoSession
    /\ pc' = [pc EXCEPT ![p] = "rc_dial"]
    /\ UNCHANGED <<CFG, timeout, mode, stopCalled, state, Receivers, Senders, stateMu, op, ret, loc>>

\* c.Dial() returns
ReconnectDial(p) ==
    /\ pc[p] = "rc_dial"
    /\ Quiet
    /\ \E ok \in BOOLEAN :
         /\ Log(p, Call("Dial", "", 0, ok))
         /\ IF ok
            THEN /\ pc' = [pc EXCEPT ![p] = "rc_describe"]
                 /\ UNCHANGED <<ret, stateMu, loc>>
            ELSE RcFail(p, "dial error")
    /\ session' = NoSession
    /\ UNCHANGED <<CFG, timeout, mode, stopCalled, state, Receivers, Senders, op>>

\* c.Describe() returns
ReconnectDescribe(p) ==
    /\ pc[p] = "rc_describe"
    /\ Quiet
    /\ \E ok \in BOOLEAN :
         /\ Log(p, Call("Describe", "", 0, ok))
         /\ IF ok
            THEN RcGoto(p, RcLoopReceivers)
            ELSE RcFail(p, "describe error")
    /\ UNCHANGED <<CFG, timeout, mode, stopCalled, state, Receivers, Senders, session, op>>

\* c.SetupMedia(receiver.Media) returns
ReconnectReceiver(p) ==
    /\ pc[p] = "rc_recv"
    /\ Quiet
    /\ LET media == Receivers[loc[p].i].media
       IN  \E ok \in BOOLEAN :
             /\ Log(p, Call("SetupMedia", media, loc[p].i, ok))
             /\ IF ok
                THEN /\ RcGoto(p, RcAdvance("rc_recv", loc[p].i, loc[p].n))
                     /\ session' = SetUp(media)
                ELSE /\ RcFail(p, "setup error")
                     /\ UNCHANGED session
    /\ UNCHANGED <<CFG, timeout, mode, stopCalled, state, Receivers, Senders, op>>

\* c.SetupMedia(sender.Media) returns
ReconnectSender(p) ==
    /\ pc[p] = "rc_send"
    /\ Quiet
    /\ LET media == Senders[loc[p].i].media
       IN  \E ok \in BOOLEAN :
             /\ Log(p, Call("SetupMedia", media, loc[p].i, ok))
             /\ IF ok
                THEN /\ RcGoto(p, RcAdvance("rc_send", loc[p].i, loc[p].n))
                     /\ session' = SetUp(media)
                ELSE /\ RcFail(p, "setup error")
                     /\ UNCHANGED session
    /\ UNCHANGED <<CFG, timeout, mode, stopCalled, state, Receivers, Senders, op>>

(* -------------------------------- Start ------------------------------- *)

\* a Start that goes to StatePlay without the PLAY
StartSwitchNoPlay(st, md) ==
    CASE st = "None" -> "nil"
      [] st = "Conn" -> "conn"
      [] st = "Setup" -> "go"
      [] OTHER -> "keep"

\* a Start whose StateNone case is missing: err stays as it was
StartSwitchNoneKept(st, md) ==
    CASE st = "Conn" -> "conn"
      [] st = "Setup" ->
            (CASE md = "ActiveProducer" -> "play"
               [] md = "PassiveProducer" -> "go"
               [] OTHER -> "mode")
      [] OTHER -> "keep"

\* a Start that treats StateNone as it treats StateConn
StartSwitchNoneConn(st, md) ==
    CASE st \in {"None", "Conn"} -> "conn"
      [] st = "Setup" ->
            (CASE md = "ActiveProducer" -> "play"
               [] md = "PassiveProducer" -> "go"
               [] OTHER -> "mode")
      [] OTHER -> "keep"

\* a Start that takes StateConn for a clean shutdown
StartSwitchConnNil(st, md) ==
    CASE st \in {"None", "Conn"} -> "nil"
      [] st = "Setup" ->
            (CASE md = "ActiveProducer" -> "play"
               [] md = "PassiveProducer" -> "go"
               [] OTHER -> "mode")
      [] OTHER -> "keep"

\* a Start that takes StateConn for StateSetup
StartSwitchConnPlays(st, md) ==
    CASE st = "None" -> "nil"
      [] st \in {"Conn", "Setup"} ->
            (CASE md = "ActiveProducer" -> "play"
               [] md = "PassiveProducer" -> "go"
               [] OTHER -> "mode")
      [] OTHER -> "keep"

\* what one pass of the Start loop does under the lock, from the state it
\* finds: "nil" and "conn" return, "play" calls c.Play(), "go" sets StatePlay
\* without a PLAY, "keep" returns with err as it stands
StartSwitch(st, md) ==
    CASE st = "None" -> "nil"
      [] st = "Conn" -> "conn"
      [] st = "Setup" ->
            (CASE md = "ActiveProducer" -> "play"
               [] md = "PassiveProducer" -> "go"
               [] OTHER -> "mode")
      [] OTHER -> "keep"

\* a Start whose entry check lets every mode through
StartAssertAnyMode(md) == md \in Modes

\* core.Assert(c.mode == ModeActiveProducer || c.mode == ModePassiveProducer)
StartAssert(md) == md \in {"ActiveProducer", "PassiveProducer"}

Start(p) ==
    /\ p \in Workers
    /\ pc[p] = "idle"
    /\ Quiet
    /\ ~stopCalled
    /\ op' = [op EXCEPT ![p] = Op("Start", "", "")]
    /\ trace' = [trace EXCEPT ![p] = <<>>]
    /\ loc' = [loc EXCEPT ![p] = NoLoc]
    /\ IF StartAssert(mode)
       THEN /\ pc' = [pc EXCEPT ![p] = "st_lock"]
            /\ ret' = [ret EXCEPT ![p] = NoRet]
       ELSE Return(p, Result("assert", 0, 0))
    /\ UNCHANGED <<CFG, timeout, mode, stopCalled, state, Receivers, Senders, stateMu, session>>

\* c.stateMu.Lock(), the switch on c.state and, unless c.Play() is to be
\* called, c.stateMu.Unlock() and what follows it
StartLocked(p) ==
    /\ pc[p] = "st_lock"
    /\ Quiet
    /\ stateMu = "free"
    /\ LET sw == StartSwitch(state, mode)
           found == [loc[p] EXCEPT !.seen = state,
                                   !.pass = IF @ < 2 THEN @ + 1 ELSE @]
       IN  CASE sw = "nil" ->
                  /\ Return(p, Result("nil", 0, 0))
                  /\ loc' = [loc EXCEPT ![p] = [found EXCEPT !.err = "nil"]]
                  /\ UNCHANGED <<state, stateMu>>
             [] sw = "conn" ->
                  /\ Return(p, Result("start from CONN state", 0, 0))
                  /\ loc' = [loc EXCEPT ![p] = [found EXCEPT !.err = "start from CONN state"]]
                  /\ UNCHANGED <<state, stateMu>>
             [] sw = "play" ->
                  /\ pc' = [pc EXCEPT ![p] = "st_play"]
                  /\ stateMu' = p
                  /\ loc' = [loc EXCEPT ![p] = found]
                  /\ UNCHANGED <<state, ret>>
             [] sw = "go" ->
                  /\ state' = "Play"
                  /\ pc' = [pc EXCEPT ![p] = "st_handle"]
                  /\ loc' = [loc EXCEPT ![p] = [found EXCEPT !.err = "nil", !.handled = TRUE]]
                  /\ UNCHANGED <<ret, stateMu>>
             [] sw = "mode" ->
                  /\ Return(p, Result("start from wrong mode", 0, 0))
                  /\ loc' = [loc EXCEPT ![p] = [found EXCEPT !.err = "start from wrong mode"]]
                  /\ UNCHANGED <<state, stateMu>>
             [] OTHER ->
                  /\ Return(p, Result(loc[p].err, 0, 0))
                  /\ loc' = [loc EXCEPT ![p] = found]
                  /\ UNCHANGED <<state, stateMu>>
    /\ trace' = [trace EXCEPT ![p] =
                    IF StartSwitch(state, mode) = "go"
                    THEN <<Call("Handle", "", 0, TRUE)>> ELSE <<>>]
    /\ UNCHANGED <<CFG, timeout, mode, stopCalled, Receivers, Senders, session, op>>

\* c.Play() returns: on success StatePlay, the unlock and c.Handle() begins
StartPlay(p) ==
    /\ pc[p] = "st_play"
    /\ Quiet
    /\ \E ok \in BOOLEAN :
         IF ok
         THEN /\ state' = "Play"
              /\ pc' = [pc EXCEPT ![p] = "st_handle"]
              /\ trace' = [trace EXCEPT ![p] =
                              @ \o <<Call("Play", "", 0, TRUE), Call("Handle", "", 0, TRUE)>>]
              /\ loc' = [loc EXCEPT ![p].err = "nil", ![p].handled = TRUE]
              /\ UNCHANGED ret
         ELSE /\ Return(p, Result("play error", 0, 0))
              /\ Log(p, Call("Play", "", 0, FALSE))
              /\ loc' = [loc EXCEPT ![p].err = "play error"]
              /\ UNCHANGED state
    /\ stateMu' = "free"
    /\ UNCHANGED <<CFG, timeout, mode, stopCalled, Receivers, Senders, session, op>>

\* c.Handle() returns, with or without an error
StartHandle(p) ==
    /\ pc[p] = "st_handle"
    /\ Quiet
    /\ \E err \in {"nil", "handle error"} :
         loc' = [loc EXCEPT ![p].err = err, ![p].herr = err]
    /\ pc' = [pc EXCEPT ![p] = "st_lock"]
    /\ UNCHANGED <<CFG, timeout, mode, stopCalled, state, Receivers, Senders, stateMu, session, op, ret, trace>>

(* -------------------------------- Stop -------------------------------- *)

\* whether the Close of the track of a Media reports a failure; Stop reads no
\* result of it
CloseFails(media) == media \in {"video", "out2"}

\* a range that ends at the first track whose Close fails
RangedUntilFailure(tracks) ==
    LET bad == {k \in 1..Len(tracks) : CloseFails(tracks[k].media)}
    IN  IF bad = {} THEN 1..Len(tracks)
        ELSE 1..(CHOOSE k \in bad : \A j \in bad : k <= j)

\* the entries a range over a registry reaches: every one, in order
Ranged(tracks) == 1..Len(tracks)

\* the tracks of a registry after the range over it that closes each: the
\* slice is read once, without the lock, and nothing else touches a track's
\* close count, so the range is taken as one step
ClosedAll(tracks) ==
    [k \in 1..Len(tracks) |->
        IF k \in Ranged(tracks) THEN [tracks[k] EXCEPT !.closed = Inc(@)] ELSE tracks[k]]

\* the Close calls of such a range, in its order
CloseCalls(cmd, tracks) ==
    [k \in Ranged(tracks) |-> Call(cmd, tracks[k].media, k, ~CloseFails(tracks[k].media))]

\* the call and the range over c.Receivers
Stop(p) ==
    /\ pc[p] = "idle"
    /\ Quiet
    /\ op' = [op EXCEPT ![p] = Op("Stop", "", "")]
    /\ ret' = [ret EXCEPT ![p] = NoRet]
    /\ loc' = [loc EXCEPT ![p] = NoLoc]
    /\ stopCalled' = TRUE
    /\ Receivers' = ClosedAll(Receivers)
    /\ trace' = [trace EXCEPT ![p] = CloseCalls("CloseReceiver", Receivers)]
    /\ pc' = [pc EXCEPT ![p] = "sp_send"]
    /\ UNCHANGED <<CFG, timeout, mode, state, Senders, stateMu, session>>

\* the range over c.Senders
StopSenders(p) ==
    /\ pc[p] = "sp_send"
    /\ Quiet
    /\ Senders' = ClosedAll(Senders)
    /\ trace' = [trace EXCEPT ![p] = @ \o CloseCalls("CloseSender", Senders)]
    /\ pc' = [pc EXCEPT ![p] = "sp_lock"]
    /\ UNCHANGED <<CFG, timeout, mode, stopCalled, state, Receivers, stateMu, session, op, ret, loc>>

\* a Stop that closes the transport whatever the state
StopMustCloseAlways(st) == TRUE

\* if c.state != StateNone
StopMustClose(st) == st # "None"

\* c.stateMu.Lock() and the test of c.state
StopLocked(p) ==
    /\ pc[p] = "sp_lock"
    /\ Quiet
    /\ stateMu = "free"
    /\ IF StopMustClose(state)
       THEN /\ state' = "None"
            /\ stateMu' = p
            /\ pc' = [pc EXCEPT ![p] = "sp_close"]
            /\ UNCHANGED ret
       ELSE /\ Return(p, Result("nil", 0, 0))
            /\ UNCHANGED <<state, stateMu>>
    /\ loc' = [loc EXCEPT ![p].seen = state]
    /\ UNCHANGED <<CFG, timeout, mode, stopCalled, Receivers, Senders, session, op, trace>>

\* err = c.Close() returns, then the unlock
StopClose(p) ==
    /\ pc[p] = "sp_close"
    /\ Quiet
    /\ \E ok \in BOOLEAN :
         /\ Log(p, Call("Close", "", 0, ok))
         /\ Return(p, Result(IF ok THEN "nil" ELSE "close error", 0, 0))
    /\ session' = NoSession
    /\ stateMu' = "free"
    /\ UNCHANGED <<CFG, timeout, mode, stopCalled, state, Receivers, Senders, op, loc>>

(* --------------------------- the specification ------------------------ *)

\* the states a connection is handed over in: a server that receives may be
\* playing already, a connection that Start is to play is not
InitStates(md) == {"None", "Conn", "Setup"} \cup (IF md = "PassiveConsumer" THEN {"Play"} ELSE {})

InitSenders(k) == [j \in 1..k |-> Track(AllSenders[j], "ANY", Byte(2 * (j - 1)))]

Init ==
    /\ mode \in Modes
    /\ state \in InitStates(mode)
    /\ Receivers = <<>>
    /\ \E k \in 0..MaxSenders : Senders = InitSenders(k)
    /\ stateMu = "free"
    /\ stopCalled = FALSE
    /\ session = {Senders[j].media : j \in 1..Len(Senders)}
    /\ pc = [p \in Procs |-> "idle"]
    /\ op = [p \in Procs |-> NoOp]
    /\ ret = [p \in Procs |-> NoRet]
    /\ trace = [p \in Procs |-> <<>>]
    /\ loc = [p \in Procs |-> NoLoc]
    /\ CFG = 0
    /\ timeout = NoTimeout

\* the caller takes the result of its call
Returned(p) ==
    /\ pc[p] = "done"
    /\ pc' = [pc EXCEPT ![p] = "idle"]
    /\ op' = [op EXCEPT ![p] = NoOp]
    /\ ret' = [ret EXCEPT ![p] = NoRet]
    /\ trace' = [trace EXCEPT ![p] = <<>>]
    /\ loc' = [loc EXCEPT ![p] = NoLoc]
    /\ UNCHANGED <<CFG, timeout, mode, stopCalled, state, Receivers, Senders, stateMu, session>>

Next ==
    \E p \in Procs :
        \/ Returned(p)
        \/ \E media \in CallMedias : \E codec \in CallCodecs(media) : GetTrack(p, media, codec)
        \/ GetTrackLocked(p)
        \/ GetTrackSetup(p)
        \/ Reconnect(p)
        \/ ReconnectClose(p)
        \/ ReconnectDial(p)
        \/ ReconnectDescribe(p)
        \/ ReconnectReceiver(p)
        \/ ReconnectSender(p)
        \/ Start(p)
        \/ StartLocked(p)
        \/ StartPlay(p)
        \/ StartHandle(p)
        \/ Stop(p)
        \/ StopSenders(p)
        \/ StopLocked(p)
        \/ StopClose(p)

Spec == Init /\ [][Next]_vars

(* ---------------- channel allocation of a PassiveConsumer ------------- *)

\* a PassiveConsumer that has allocated this many recvonly tracks already
Earlier == 127

EarlierReceivers(n) ==
    [k \in 1..n |-> Track(EarlierMedia(k), "H264", Byte(2 * (k - 1)))]

InitAlloc ==
    /\ mode = "PassiveConsumer"
    /\ state \in InitStates(mode)
    /\ \E n \in {0, Earlier} : Receivers = EarlierReceivers(n)
    /\ \E k \in 0..MaxSenders : Senders = InitSenders(k)
    /\ stateMu = "free"
    /\ stopCalled = FALSE
    /\ session = {}
    /\ pc = [p \in Procs |-> "idle"]
    /\ op = [p \in Procs |-> NoOp]
    /\ ret = [p \in Procs |-> NoRet]
    /\ trace = [p \in Procs |-> <<>>]
    /\ loc = [p \in Procs |-> NoLoc]
    /\ CFG = 0
    /\ timeout = NoTimeout

NextAlloc ==
    \E p \in Procs :
        \/ Returned(p)
        \/ \E media \in CallMedias : \E codec \in CallCodecs(media) : GetTrack(p, media, codec)
        \/ GetTrackLocked(p)

SpecAlloc == InitAlloc /\ [][NextAlloc]_vars

(* ------------------- the streams configuration getter ----------------- *)

\* the configured durations tried, in units of time.Duration, are those
\* from -MaxTimeout to MaxTimeout
MaxTimeout == 60

Durations == (0 - MaxTimeout)..MaxTimeout

\* GetBackchannelInactivityTimeout() on a configured value v
GetBackchannelInactivityTimeout(v) == IF v > 0 THEN v ELSE v

\* the YAML configuration is loaded into CFG.Backchannel.InactivityTimeout
LoadConfig ==
    /\ ~timeout.read
    /\ \E v \in Durations : CFG' = v
    /\ CFG' # CFG
    /\ UNCHANGED <<timeout, conn>>

\* the monitor reads the timeout
ReadTimeout ==
    /\ ~timeout.read
    /\ timeout' = Timeout(GetBackchannelInactivityTimeout(CFG))
    /\ UNCHANGED <<CFG, conn>>

\* the monitor is done with the value
DropTimeout ==
    /\ timeout.read
    /\ timeout' = NoTimeout
    /\ UNCHANGED <<CFG, conn>>

InitConfig ==
    /\ mode = "PassiveConsumer"
    /\ state = "None"
    /\ Receivers = <<>>
    /\ Senders = <<>>
    /\ stateMu = "free"
    /\ stopCalled = FALSE
    /\ session = {}
    /\ pc = [p \in Procs |-> "idle"]
    /\ op = [p \in Procs |-> NoOp]
    /\ ret = [p \in Procs |-> NoRet]
    /\ trace = [p \in Procs |-> <<>>]
    /\ loc = [p \in Procs |-> NoLoc]
    /\ CFG = 0
    /\ timeout = NoTimeout

NextConfig == LoadConfig \/ ReadTimeout \/ DropTimeout

SpecConfig == InitConfig /\ [][NextConfig]_vars

(* ------------------------------- claims ------------------------------- *)

Done(p, name) == pc[p] = "done" /\ op[p].name = name

Count(t, cmd) == Cardinality({k \in 1..Len(t) : t[k].cmd = cmd})

Setup(media, n) == Call("SetupMedia", media, n, TRUE)

Matching(media, codec) ==
    {k \in 1..Len(Receivers) :
        Receivers[k].media = media /\ Match(Receivers[k].codec, codec)}

\* C1: a GetTrack call for a recvonly Media that c.Receivers already holds
\* with a compatible codec returns at once that very track, the first such
\* entry, with no SetupMedia and no Reconnect, and leaves state, c.Receivers
\* and the transport session as they are, whatever the state.
C1_CachedTrack ==
    [][\A p \in Procs : \A media \in RecvMedias : \A codec \in Codecs :
         (/\ pc[p] = "idle"
          /\ pc'[p] # "idle"
          /\ op'[p] = Op("GetTrack", media, codec)
          /\ Matching(media, codec) # {})
         => /\ pc'[p] = "done"
            /\ ret'[p].err = "nil"
            /\ ret'[p].track \in Matching(media, codec)
            /\ \A j \in Matching(media, codec) : ret'[p].track <= j
            /\ ret'[p].id = Receivers[ret'[p].track].id
            /\ trace'[p] = <<>>
            /\ UNCHANGED <<state, Receivers, Senders, session, stateMu>>]_vars

W_C1_CachedWhilePlaying ==
    \E p \in Procs :
        /\ Done(p, "GetTrack")
        /\ mode = "ActiveProducer"
        /\ state = "Play"
        /\ ret[p].err = "nil"
        /\ ret[p].track >= 1
        /\ trace[p] = <<>>

(* C2 *)

\* a GetTrack of an ActiveProducer that reconnected and registered the second
\* receiver of a connection without senders
SecondTrack(p) ==
    /\ Done(p, "GetTrack")
    /\ mode = "ActiveProducer"
    /\ ret[p].err = "nil"
    /\ ret[p].track = 2
    /\ Senders = <<>>
    /\ Len(trace[p]) > 1

UnderLock ==
    \A p \in Procs :
        (/\ op[p].name = "GetTrack"
         /\ pc[p] \in {"rc_close", "rc_dial", "rc_describe", "rc_recv", "rc_send", "gt_setup"})
        => stateMu = p

C2_Scenario ==
    /\ UnderLock
    /\ \A p \in Procs :
         SecondTrack(p) =>
            /\ trace[p] = << Call("Close", "", 0, TRUE), Call("Dial", "", 0, TRUE),
                             Call("Describe", "", 0, TRUE),
                             Setup(Receivers[1].media, 1), Setup(op[p].media, 0) >>
            /\ Len(Receivers) = 2
            /\ Receivers[2].media = op[p].media
            /\ state = "Setup"

C2_UntilPlay ==
    /\ (~stopCalled' /\ state = "Setup" /\ state' # "Setup") =>
          /\ state' = "Play"
          /\ \E w \in Procs :
               /\ op[w].name = "Start"
               /\ pc[w] \in {"st_play", "st_lock"}
               /\ pc'[w] = "st_handle"
               /\ mode = "ActiveProducer" =>
                     (pc[w] = "st_play" /\ trace'[w][1] = Call("Play", "", 0, TRUE))
    /\ \A w \in Procs :
          (pc[w] = "st_handle" /\ pc'[w] # "st_handle") =>
              (pc'[w] = "st_lock" /\ state' = state)

\* C2: a GetTrack of an ActiveProducer for a new recvonly Media, on a playing
\* connection with one receiver and no sender, performs under the lock Close,
\* Dial, Describe, the SetupMedia of the first receiver and then the SetupMedia
\* of the new Media; as it returns c.Receivers has two entries and state is
\* Setup; and, no Stop being called, state leaves Setup only for Play, set by a
\* Start loop after a PLAY, which a loop blocked in Handle reaches only once
\* Handle has returned.
C2_ReconnectThenSetup == []C2_Scenario /\ [][C2_UntilPlay]_vars

W_C2_SecondTrackWhileHandling ==
    \E p \in Procs : \E w \in Procs :
        /\ SecondTrack(p)
        /\ op[w].name = "Start"
        /\ pc[w] = "st_handle"
        /\ state = "Setup"

(* C3 *)

C3_Step ==
    /\ (state # "Play" /\ state' = "Play") =>
          /\ state = "Setup"
          /\ \E p \in Procs :
               /\ op[p].name = "Start"
               /\ pc'[p] = "st_handle"
               /\ mode = "ActiveProducer" =>
                     /\ pc[p] = "st_play"
                     /\ stateMu = p
                     /\ Count(trace'[p], "Play") = 1
                     /\ trace'[p][1] = Call("Play", "", 0, TRUE)
               /\ mode = "PassiveProducer" =>
                     /\ pc[p] = "st_lock"
                     /\ Count(trace'[p], "Play") = 0
    /\ \A p \in Procs :
          (pc[p] = "st_play" /\ pc'[p] # "st_play") =>
              /\ stateMu = p
              /\ state = "Setup"
              /\ Count(trace[p], "Play") = 0
              /\ \/ /\ state' = "Play"
                    /\ pc'[p] = "st_handle"
                    /\ trace'[p][1] = Call("Play", "", 0, TRUE)
                 \/ /\ state' = "Setup"
                    /\ pc'[p] = "done"
                    /\ ret'[p].err = "play error"
                    /\ trace'[p] = <<Call("Play", "", 0, FALSE)>>

\* C3: state becomes Play only from Setup and only by Start; in an
\* ActiveProducer the step is the return of the one Play call of that locked
\* section, which succeeded; a Play call that returns is followed at once by
\* that change or, when it failed, by Start returning its error with state
\* still Setup; in a PassiveProducer the change is made with no Play call.
C3_PlayOncePerTransition == [][C3_Step]_vars

W_C3_PlayedThenHandles ==
    \E p \in Procs :
        /\ op[p].name = "Start"
        /\ pc[p] = "st_handle"
        /\ mode = "ActiveProducer"
        /\ state = "Play"
        /\ trace[p] = <<Call("Play", "", 0, TRUE), Call("Handle", "", 0, TRUE)>>

(* C4 *)

RcPcs == {"rc_close", "rc_dial", "rc_describe", "rc_recv", "rc_send"}

\* the calls of a Reconnect that succeeds with r receivers to replay
Canon(r) ==
    << Call("Close", "", 0, TRUE), Call("Dial", "", 0, TRUE), Call("Describe", "", 0, TRUE) >>
    \o [k \in 1..r |-> Setup(Receivers[k].media, k)]
    \o [k \in 1..Len(Senders) |-> Setup(Senders[k].media, k)]

ErrorOf(cmd) ==
    CASE cmd = "Dial" -> "dial error"
      [] cmd = "Describe" -> "describe error"
      [] OTHER -> "setup error"

\* t is the first n calls of canon, all successful
Ran(t, canon, n) == n <= Len(canon) /\ t = SubSeq(canon, 1, n)

\* t is the first n calls of canon, the n-th failed, and err is its error
FailedAt(t, canon, n, err) ==
    /\ n \in 2..Len(canon)
    /\ t = SubSeq(canon, 1, n - 1) \o <<[canon[n] EXCEPT !.ok = FALSE]>>
    /\ err = ErrorOf(canon[n].cmd)

\* the calls made so far at each place of Reconnect
Place(p, r) ==
    CASE pc[p] = "rc_close" -> 0
      [] pc[p] = "rc_dial" -> 1
      [] pc[p] = "rc_describe" -> 2
      [] pc[p] = "rc_recv" -> 2 + loc[p].i
      [] OTHER -> 2 + r + loc[p].i

\* the receivers a GetTrack found registered: all of them, but for the one
\* it has just appended
Before(p) ==
    IF pc[p] = "done" /\ ret[p].err = "nil" /\ ret[p].track > 0
    THEN ret[p].track - 1
    ELSE Len(Receivers)

C4_Order ==
    \A p \in Procs :
        /\ (pc[p] \in RcPcs /\ op[p].name = "GetTrack") =>
              Ran(trace[p], Canon(Len(Receivers)), Place(p, Len(Receivers)))
        /\ (pc[p] = "gt_setup" /\ trace[p] # <<>>) =>
              trace[p] = Canon(Len(Receivers))
        /\ (Done(p, "GetTrack") /\ Len(trace[p]) > 1) =>
              LET canon == Canon(Before(p))
              IN  \/ /\ Len(trace[p]) = Len(canon) + 1
                     /\ SubSeq(trace[p], 1, Len(canon)) = canon
                     /\ trace[p][Len(trace[p])].cmd = "SetupMedia"
                     /\ trace[p][Len(trace[p])].arg = op[p].media
                  \/ \E n \in 2..Len(canon) : FailedAt(trace[p], canon, n, ret[p].err)
        /\ (pc[p] \in RcPcs /\ op[p].name = "Reconnect") =>
              \E r \in 0..Len(Receivers) :
                  /\ pc[p] = "rc_recv" => r = loc[p].n
                  /\ Ran(trace[p], Canon(r), Place(p, r))
        /\ Done(p, "Reconnect") =>
              \E r \in 0..Len(Receivers) :
                  \/ ret[p].err = "nil" /\ trace[p] = Canon(r)
                  \/ \E n \in 2..Len(Canon(r)) : FailedAt(trace[p], Canon(r), n, ret[p].err)

C4_Untouched ==
    \A p \in Procs :
        (pc[p] \in RcPcs /\ trace'[p] # trace[p]) => UNCHANGED <<Receivers, Senders>>

\* C4: the calls of a Reconnect are, in this order, Close, Dial, Describe, the
\* SetupMedia of each receiver in order and the SetupMedia of each sender in
\* order; every call before the last succeeded (Close whatever it returned),
\* and a Reconnect that returns an error returns that of its last call, which
\* failed: nothing is called after a failure. No step of Reconnect changes
\* c.Receivers or c.Senders.
C4_ReconnectOrder == []C4_Order /\ [][C4_Untouched]_vars

W_C4_SecondReplayFails ==
    \E p \in Procs :
        /\ Done(p, "Reconnect")
        /\ Len(Receivers) >= 2
        /\ Len(Senders) >= 1
        /\ ret[p].err = "setup error"
        /\ Len(trace[p]) = 5
        /\ trace[p][4] = Setup(Receivers[1].media, 1)
        /\ trace[p][5] = [Setup(Receivers[2].media, 2) EXCEPT !.ok = FALSE]

(* C5 *)

\* C5 as amended: the track a PassiveConsumer registers as its N-th (counted
\* from 0) carries the id 2N mod 256, which is 2N for N < 128, so that among
\* the first 128 tracks the one registered last shares its id with no other,
\* and GetTrack returns a registered track with the id it carries.
C5_ChannelByte ==
    /\ \A k \in 1..Len(Receivers) :
         /\ Receivers[k].id = (2 * (k - 1)) % 256
         /\ k <= 128 => Receivers[k].id = 2 * (k - 1)
         /\ (k < Len(Receivers) /\ Len(Receivers) <= 128) =>
              Receivers[k].id # Receivers[Len(Receivers)].id
    /\ \A p \in Procs :
         (Done(p, "GetTrack") /\ ret[p].err = "nil") =>
            /\ ret[p].track \in 1..Len(Receivers)
            /\ ret[p].id = Receivers[ret[p].track].id

\* C5 as claimed: the N-th track carries the id 2N, and the ids are distinct
CE_C5_ChannelTwiceN ==
    \A k \in 1..Len(Receivers) :
        /\ Receivers[k].id = 2 * (k - 1)
        /\ \A j \in 1..Len(Receivers) : j < k => Receivers[j].id # Receivers[k].id

W_C5_ChannelWraps ==
    \E p \in Procs :
        /\ Done(p, "GetTrack")
        /\ mode = "PassiveConsumer"
        /\ ret[p].err = "nil"
        /\ ret[p].track = Len(Receivers)
        /\ ret[p].track > 128
        /\ ret[p].id < 4

(* C6 *)

\* C6: a GetTrack of a PassiveConsumer for a Media that is not recvonly
\* succeeds with a new, unregistered track whose id is twice the number of
\* senders.
CE_C6_PassiveSenderTrack ==
    \A p \in Procs :
        (/\ Done(p, "GetTrack")
         /\ mode = "PassiveConsumer"
         /\ Direction(op[p].media) # "recvonly")
        => /\ ret[p].err = "nil"
           /\ ret[p].track = -1
           /\ ret[p].id = 2 * Len(Senders)

(* C7 *)

FirstPassNone(p) ==
    /\ Done(p, "Start")
    /\ loc[p].pass = 1
    /\ loc[p].seen = "None"

\* C7 as amended: a Start that finds state None on the first pass of its loop
\* returns nil at once, without a call of Handle or Play and with state
\* still None.
C7_NoneReturnsAtOnce ==
    \A p \in Procs :
        FirstPassNone(p) =>
            /\ ret[p].err = "nil"
            /\ ~loc[p].handled
            /\ trace[p] = <<>>
            /\ state = "None"

\* C7 as claimed: such a Start has called Handle by the time it returns
CE_C7_NoneStillHandles ==
    \A p \in Procs : FirstPassNone(p) => loc[p].handled

W_C7_FirstPassNone == \E p \in Procs : FirstPassNone(p)

(* C8 *)

\* C8: a Start that finds state Conn returns the error "start from CONN
\* state" with no call of Play or Handle in that pass and with state still
\* Conn.
C8_ConnFails ==
    \A p \in Procs :
        (Done(p, "Start") /\ loc[p].seen = "Conn") =>
            /\ ret[p].err = "start from CONN state"
            /\ trace[p] = <<>>
            /\ state = "Conn"

W_C8_StartFromConn ==
    \E p \in Procs :
        /\ Done(p, "Start")
        /\ loc[p].seen = "Conn"
        /\ ret[p].err # "nil"

(* C9 *)

\* C9: a Start that finds state None after Handle returned, with an error or
\* without, returns nil, with no further call of Play or Handle and with
\* state still None.
C9_NoneAfterHandle ==
    \A p \in Procs :
        (Done(p, "Start") /\ loc[p].handled /\ loc[p].seen = "None") =>
            /\ ret[p].err = "nil"
            /\ trace[p] = <<>>
            /\ state = "None"

W_C9_HandleErrorDropped ==
    \E p \in Procs :
        /\ Done(p, "Start")
        /\ loc[p].handled
        /\ loc[p].seen = "None"
        /\ loc[p].herr = "handle error"
        /\ stopCalled

(* C10 *)

\* C10: a Stop that finds state None returns nil with no call of Close; a Stop
\* that finds another state calls Close once and returns what it returned;
\* either way state is None as Stop returns, so that a Stop that follows with
\* nothing in between calls no Close.
C10_StopClosesOnce ==
    \A p \in Procs :
        Done(p, "Stop") =>
            /\ state = "None"
            /\ loc[p].seen = "None" =>
                  (ret[p].err = "nil" /\ Count(trace[p], "Close") = 0)
            /\ loc[p].seen # "None" =>
                  /\ Count(trace[p], "Close") = 1
                  /\ trace[p][Len(trace[p])].cmd = "Close"
                  /\ ret[p].err = IF trace[p][Len(trace[p])].ok THEN "nil" ELSE "close error"

W_C10_SecondStop ==
    \E p \in Procs :
        /\ Done(p, "Stop")
        /\ loc[p].seen = "None"
        /\ Len(Receivers) >= 1
        /\ \A k \in 1..Len(Receivers) : Receivers[k].closed = 2

(* C11 *)

\* the Close calls of a Stop over the first r receivers and all the senders
TrackCloses(r) ==
    [k \in 1..r |-> Call("CloseReceiver", Receivers[k].media, k, ~CloseFails(Receivers[k].media))]
    \o [k \in 1..Len(Senders) |->
           Call("CloseSender", Senders[k].media, k, ~CloseFails(Senders[k].media))]

\* a Stop past its two ranges has closed the receivers, then the senders,
\* each in order, whatever a Close reported, and only then the transport
C11_Closes ==
    \A p \in Procs :
        (op[p].name = "Stop" /\ pc[p] \in {"sp_lock", "sp_close", "done"}) =>
            \E r \in 0..Len(Receivers) :
                \/ trace[p] = TrackCloses(r)
                \/ /\ pc[p] = "done"
                   /\ Len(trace[p]) = Len(TrackCloses(r)) + 1
                   /\ SubSeq(trace[p], 1, Len(TrackCloses(r))) = TrackCloses(r)
                   /\ trace[p][Len(trace[p])].cmd = "Close"

\* the range over c.Receivers closes every track registered as it starts, and
\* the range over c.Senders every sender; neither touches state, the lock or
\* the transport session
C11_Ranges ==
    \A p \in Procs :
        /\ (pc[p] = "idle" /\ pc'[p] = "sp_send") =>
              /\ Len(Receivers') = Len(Receivers)
              /\ \A k \in 1..Len(Receivers) : Receivers'[k].closed = Inc(Receivers[k].closed)
              /\ Len(trace'[p]) = Len(Receivers)
              /\ UNCHANGED <<state, stateMu, session, Senders>>
        /\ (pc[p] = "sp_send" /\ pc'[p] # "sp_send") =>
              /\ pc'[p] = "sp_lock"
              /\ Len(Senders') = Len(Senders)
              /\ \A k \in 1..Len(Senders) : Senders'[k].closed = Inc(Senders[k].closed)
              /\ UNCHANGED <<state, stateMu, session, Receivers>>

\* C11: Stop closes every track of c.Receivers and then every track of
\* c.Senders, each in registration order, before it touches state or the
\* transport; the failure of one Close keeps no later track from being
\* closed, and every receiver is closed before any sender.
C11_StopClosesTracks == []C11_Closes /\ [][C11_Ranges]_vars

W_C11_FirstCloseFails ==
    \E p \in Procs :
        /\ Done(p, "Stop")
        /\ Len(Receivers) = 2
        /\ Len(Senders) = 1
        /\ Len(trace[p]) >= 3
        /\ trace[p][1] = Call("CloseReceiver", Receivers[1].media, 1, FALSE)
        /\ trace[p][2].cmd = "CloseReceiver"
        /\ trace[p][3].cmd = "CloseSender"
        /\ \A k \in 1..2 : Receivers[k].closed >= 1
        /\ Senders[1].closed >= 1

(* C12 *)

\* C12: a Start called on a PassiveConsumer fails on its entry assertion
\* before it takes the lock: the call returns the assertion failure with no
\* Play and no Handle call and with state, lock and registries unchanged,
\* whatever the state is.
C12_StartAsserts ==
    [][\A p \in Procs :
         (/\ pc[p] = "idle"
          /\ pc'[p] # "idle"
          /\ op'[p].name = "Start"
          /\ mode = "PassiveConsumer")
         => /\ pc'[p] = "done"
            /\ ret'[p].err = "assert"
            /\ trace'[p] = <<>>
            /\ ~loc'[p].handled
            /\ UNCHANGED <<state, stateMu, session, Receivers, Senders>>]_vars

W_C12_AssertWhilePlaying ==
    \E p \in Procs :
        /\ Done(p, "Start")
        /\ mode = "PassiveConsumer"
        /\ state = "Play"
        /\ ret[p].err = "assert"

(* C13 *)

\* C13: GetBackchannelInactivityTimeout returns, for every configured
\* duration v, negative, zero or positive, v when v > 0 and exactly zero
\* otherwise.
CE_C13_ZeroUnlessPositive ==
    timeout.read => timeout.value = (IF CFG > 0 THEN CFG ELSE 0)

(* C14 *)

AllReturned == \A p \in Procs : pc[p] = "idle"

\* a Stop started after the last append: it closed the track appended last
StoppedAfterLastAppend ==
    /\ stopCalled
    /\ Len(Receivers) > 0 => Receivers[Len(Receivers)].closed >= 1

\* C14: once every call has returned and a Stop started after the last
\* append to c.Receivers, every track of c.Receivers and of c.Senders has
\* been closed exactly once, whatever the interleaving of the GetTrack and
\* Stop calls and however often Stop was called.
CE_C14_ClosedExactlyOnce ==
    (AllReturned /\ StoppedAfterLastAppend) =>
        /\ \A k \in 1..Len(Receivers) : Receivers[k].closed = 1
        /\ \A k \in 1..Len(Senders) : Senders[k].closed = 1

(* C15 *)

\* the callers with Close, Dial, Describe, SetupMedia or Play in progress
InCommand ==
    {p \in Procs : pc[p] \in RcPcs \cup {"gt_setup", "st_play", "sp_close"}}

\* C15: at any time at most one of the transport commands Dial, Describe,
\* SetupMedia, Play and Close is in progress, and its caller holds the lock
\* of the connection, whatever the interleaving of the callers of Start,
\* Stop, GetTrack and Reconnect; only Handle runs outside the lock.
CE_C15_OneCommandUnderLock ==
    /\ Cardinality(InCommand) <= 1
    /\ \A p \in InCommand : stateMu = p

(* C16 *)

\* every registered track has had a successful SetupMedia on the session the
\* last Dial opened
AllSetUp ==
    /\ \A k \in 1..Len(Receivers) : Receivers[k].media \in session
    /\ \A k \in 1..Len(Senders) : Senders[k].media \in session

\* C16: whenever state is Play, every entry of c.Receivers and of c.Senders
\* has had a successful SetupMedia on the current transport session, after
\* any GetTrack, Start and Reconnect calls, failed ones included; stated for
\* the state in which a GetTrack of the client returns.
CE_C16_PlayMeansSetUp ==
    \A p \in Procs :
        (Done(p, "GetTrack") /\ mode = "ActiveProducer" /\ state = "Play") => AllSetUp

(* C17 *)

\* a GetTrack of the client returns from its own SetupMedia, which succeeded
SetupReturns(p) ==
    /\ op[p].name = "GetTrack"
    /\ mode = "ActiveProducer"
    /\ pc[p] = "gt_setup"
    /\ stateMu = p
    /\ pc'[p] = "done"
    /\ trace'[p][Len(trace'[p])] = Setup(op[p].media, 0)

\* that GetTrack ran Reconnect first, to the end
Reconnected(p) == Len(trace[p]) >= 3 /\ trace[p][1].cmd = "Close"

\* a Start loop makes the step to Play
StartPlays(p) ==
    /\ op[p].name = "Start"
    /\ pc[p] \in {"st_lock", "st_play"}
    /\ pc'[p] = "st_handle"

\* a Stop that holds the lock resets the state before it closes the transport
StopResets(p) ==
    /\ op[p].name = "Stop"
    /\ pc[p] = "sp_lock"
    /\ pc'[p] = "sp_close"
    /\ stateMu' = p

C17_Changes ==
    /\ state' # state =>
          \/ /\ state' = "Setup"
             /\ \E p \in Procs : SetupReturns(p) /\ (state = "Play" <=> Reconnected(p))
          \/ /\ state = "Setup"
             /\ state' = "Play"
             /\ \E p \in Procs : StartPlays(p)
          \/ /\ state' = "None"
             /\ \E p \in Procs : StopResets(p)
    /\ \A p \in Procs : (pc[p] \in RcPcs /\ trace'[p] # trace[p]) => state' = state

C17_PlayThroughReconnect ==
    \A p \in Procs : (op[p].name = "GetTrack" /\ pc[p] \in RcPcs) => state = "Play"

\* C17 as amended: every change of state is one of: to Setup, from None, Conn
\* or Play, by a GetTrack of an ActiveProducer whose SetupMedia succeeded,
\* from Play exactly when that GetTrack ran Reconnect first; Setup to Play,
\* by Start; to None, from Conn, Setup or Play, by Stop under the lock.
\* Reconnect changes no state, and during the reconnect of a GetTrack state
\* stays Play, so is never None.
C17_StateChanges == []C17_PlayThroughReconnect /\ [][C17_Changes]_vars

LegalChanges ==
    {<<"None", "Conn">>, <<"Conn", "Setup">>, <<"Setup", "Play">>, <<"Play", "None">>}

\* C17 as claimed: every change of state is None to Conn, Conn to Setup,
\* Setup to Play, Play to None, or Play to Setup by a GetTrack that ran
\* Reconnect
CE_C17_MonotonicChanges ==
    [][state' # state =>
         \/ <<state, state'>> \in LegalChanges
         \/ /\ <<state, state'>> = <<"Play", "Setup">>
            /\ \E p \in Procs : SetupReturns(p) /\ Reconnected(p)]_vars

W_C17_StopFromSetup ==
    \E p \in Procs :
        /\ Done(p, "Stop")
        /\ loc[p].seen = "Setup"
        /\ state = "None"
        /\ Len(Receivers) >= 1

(* C18 *)

\* C18: a Start that finds state Play under the lock, on its first pass or
\* after Handle returned without an error, returns an error, never nil.
CE_C18_PlayFails ==
    \A p \in Procs :
        (Done(p, "Start") /\ loc[p].seen = "Play") => ret[p].err # "nil"

(* C19 *)

\* C19: however GetTrack calls of an ActiveProducer or a PassiveConsumer for
\* one recvonly Media and one codec interleave, c.Receivers never holds two
\* entries for that Media with that codec.
CE_C19_NoDuplicateTrack ==
    mode \in {"ActiveProducer", "PassiveConsumer"} =>
        \A j \in 1..Len(Receivers) : \A k \in 1..Len(Receivers) :
            (j < k /\ Receivers[j].media = Receivers[k].media)
            => Receivers[j].codec # Receivers[k].codec

(* C20 *)

\* C20: a GetTrack call that is rejected for its combination of mode and
\* direction has performed no SetupMedia and no Reconnect, so that it leaves
\* the connection as it found it.
CE_C20_RejectedUntouched ==
    \A p \in Procs :
        (Done(p, "GetTrack") /\ ret[p].err = "GetTrack internal logic error")
        => trace[p] = <<>>

====
